---------------------------- MODULE Spec2Model ----------------------------
(***************************************************************************)
(* A model of the YouTube comment analyzer: the CommentAnalyzer class      *)
(* (backend/comment_analyzer.py) and the four POST endpoints of the        *)
(* FastAPI service in front of it (youtube-comment-analyzer/backend/       *)
(* main.py).                                                               *)
(*                                                                         *)
(* A Python str is a sequence of one-character strings.  A dict is a       *)
(* function whose domain is its key set; an attribute left at its default  *)
(* None is an absent key.  Percentages are integers counted in hundredths  *)
(* of a percent (66.67 is 6667); scores and polarities are integers        *)
(* counted in thousandths (0.7 is 700).                                    *)
(***************************************************************************)
EXTENDS Integers, Sequences, FiniteSets, TLC

(***************************************************************************)
(* Characters and the str methods the analyzer uses.                       *)
(***************************************************************************)
UpperSeq ==
    <<"A","B","C","D","E","F","G","H","I","J","K","L","M",
      "N","O","P","Q","R","S","T","U","V","W","X","Y","Z">>

LowerSeq ==
    <<"a","b","c","d","e","f","g","h","i","j","k","l","m",
      "n","o","p","q","r","s","t","u","v","w","x","y","z">>

Range(f) == {f[i] : i \in DOMAIN f}

UpperLetters == Range(UpperSeq)

LowerLetters == Range(LowerSeq)

Letters == UpperLetters \cup LowerLetters

Digits == {"0","1","2","3","4","5","6","7","8","9"}

Whitespace == {" ", "\t"}

\* the punctuation clean_text keeps
BasicPunctuation == {"!", "?", ".", ","}

\* \w of the re module: letters, digits and the underscore
WordChars == Letters \cup Digits \cup {"_"}

\* ASCII 0x24 ('$') .. 0x5F ('_') without its letters and digits: the range
\* $-_ of the URL pattern's character class
DollarToUnderscore ==
    {"$", "%", "&", "'", "(", ")", "*", "+", ",", "-", ".", "/", ":", ";",
     "<", "=", ">", "?", "@", "[", "]", "^", "_"}

\* the characters the URL pattern's repeated group accepts
UrlChars == Letters \cup Digits \cup DollarToUnderscore \cup {"!"}

LowerOf == [c \in UpperLetters |-> LowerSeq[CHOOSE i \in 1..26 : UpperSeq[i] = c]]

\* str.lower()
lower(s) == [i \in 1..Len(s) |-> IF s[i] \in UpperLetters THEN LowerOf[s[i]] ELSE s[i]]

\* str.isupper(): at least one cased character and no lower-case one
isupper(s) ==
    /\ \E i \in 1..Len(s) : s[i] \in UpperLetters
    /\ \A i \in 1..Len(s) : s[i] \notin LowerLetters

\* str.isalpha(): not empty and letters only
isalpha(s) == Len(s) > 0 /\ \A i \in 1..Len(s) : s[i] \in Letters

\* len(set(s))
DistinctChars(s) == Cardinality(Range(s))

\* needle in haystack, for two strs
Contains(haystack, needle) ==
    \E i \in 1..(Len(haystack) - Len(needle) + 1) :
        SubSeq(haystack, i, i + Len(needle) - 1) = needle

\* c in s, for one character c
HasChar(s, c) == \E i \in 1..Len(s) : s[i] = c

RECURSIVE LStrip(_)
LStrip(s) == IF s # <<>> /\ Head(s) \in Whitespace THEN LStrip(Tail(s)) ELSE s

RECURSIVE RStrip(_)
RStrip(s) ==
    IF s # <<>> /\ s[Len(s)] \in Whitespace THEN RStrip(SubSeq(s, 1, Len(s) - 1)) ELSE s

\* str.strip()
strip(s) == RStrip(LStrip(s))

\* str.split(): the maximal runs of non-whitespace characters, in order
RECURSIVE SplitFrom(_, _, _)
SplitFrom(s, i, word) ==
    IF i > Len(s)
    THEN IF word = <<>> THEN <<>> ELSE <<word>>
    ELSE IF s[i] \in Whitespace
         THEN (IF word = <<>> THEN <<>> ELSE <<word>>) \o SplitFrom(s, i + 1, <<>>)
         ELSE SplitFrom(s, i + 1, Append(word, s[i]))

split(s) == SplitFrom(s, 1, <<>>)

\* ' '.join(words)
RECURSIVE JoinSpace(_)
JoinSpace(words) ==
    IF words = <<>> THEN <<>>
    ELSE IF Len(words) = 1 THEN words[1]
    ELSE words[1] \o <<" ">> \o JoinSpace(Tail(words))

(***************************************************************************)
(* clean_text                                                              *)
(***************************************************************************)
\* the index of the last character of the URL pattern's match that starts at
\* s[i], 0 when the pattern does not match there
UrlMatchEnd(s, i) ==
    LET IsAt(k, w) == k + Len(w) - 1 <= Len(s) /\ SubSeq(s, k, k + Len(w) - 1) = w
        j == IF IsAt(i + 4, <<"s">>) THEN i + 5 ELSE i + 4
        body == j + 3
        Run == {e \in body..Len(s) : \A k \in body..e : s[k] \in UrlChars}
    IN  IF IsAt(i, <<"h","t","t","p">>) /\ IsAt(j, <<":","/","/">>) /\ Run # {}
        THEN CHOOSE e \in Run : \A f \in Run : f <= e
        ELSE 0

\* re.sub(<URL pattern>, '', s): every non-overlapping match, leftmost first
RECURSIVE RemoveUrlsFrom(_, _)
RemoveUrlsFrom(s, i) ==
    IF i > Len(s) THEN <<>>
    ELSE LET e == UrlMatchEnd(s, i)
         IN  IF e > 0 THEN RemoveUrlsFrom(s, e + 1)
             ELSE <<s[i]>> \o RemoveUrlsFrom(s, i + 1)

RemoveUrls(s) == RemoveUrlsFrom(s, 1)

\* the characters the second pattern keeps: \w, \s and ! ? . ,
KeptChars == WordChars \cup Whitespace \cup BasicPunctuation

\* re.sub(r'[^\w\s!?.,]', '', s)
RemoveSpecialChars(s) ==
    LET Kept(c) == c \in KeptChars
    IN  SelectSeq(s, Kept)

clean_text(text) ==
    IF text = <<>> THEN <<>>
    ELSE strip(JoinSpace(split(RemoveSpecialChars(RemoveUrls(text)))))

(***************************************************************************)
(* The word lists of the rule-based fallbacks and of __init__.             *)
(***************************************************************************)

positive_words ==
    <<<<"g","o","o","d">>,
     <<"g","r","e","a","t">>,
     <<"a","m","a","z","i","n","g">>,
     <<"a","w","e","s","o","m","e">>,
     <<"l","o","v","e">>,
     <<"l","i","k","e">>,
     <<"b","e","s","t">>,
     <<"e","x","c","e","l","l","e","n","t">>>>

negative_words ==
    <<<<"b","a","d">>,
     <<"t","e","r","r","i","b","l","e">>,
     <<"a","w","f","u","l">>,
     <<"h","a","t","e">>,
     <<"w","o","r","s","t">>,
     <<"s","u","c","k","s">>,
     <<"h","o","r","r","i","b","l","e">>>>

joy_words ==
    <<<<"h","a","p","p","y">>,
     <<"j","o","y">>,
     <<"l","o","v","e">>,
     <<"g","r","e","a","t">>,
     <<"a","m","a","z","i","n","g">>,
     <<"w","o","n","d","e","r","f","u","l">>>>

anger_words ==
    <<<<"a","n","g","r","y">>,
     <<"m","a","d">>,
     <<"h","a","t","e">>,
     <<"f","u","r","i","o","u","s">>,
     <<"a","n","n","o","y","e","d">>>>

sadness_words ==
    <<<<"s","a","d">>,
     <<"d","e","p","r","e","s","s","e","d">>,
     <<"u","p","s","e","t">>,
     <<"d","i","s","a","p","p","o","i","n","t","e","d">>>>

fear_words ==
    <<<<"s","c","a","r","e","d">>,
     <<"a","f","r","a","i","d">>,
     <<"t","e","r","r","i","f","i","e","d">>,
     <<"f","e","a","r">>>>

surprise_words ==
    <<<<"s","u","r","p","r","i","s","e","d">>,
     <<"s","h","o","c","k","e","d">>,
     <<"a","m","a","z","e","d">>,
     <<"w","o","w">>>>

\* the list __init__ stores in self.toxic_keywords
TOXIC_KEYWORDS ==
    <<<<"h","a","t","e">>,
     <<"s","t","u","p","i","d">>,
     <<"i","d","i","o","t">>,
     <<"d","u","m","b">>,
     <<"t","r","a","s","h">>,
     <<"g","a","r","b","a","g","e">>,
     <<"t","e","r","r","i","b","l","e">>,
     <<"a","w","f","u","l">>,
     <<"w","o","r","s","t">>,
     <<"s","u","c","k">>,
     <<"s","u","c","k","s">>,
     <<"d","a","m","n">>,
     <<"h","e","l","l">>,
     <<"s","h","u","t"," ","u","p">>>>

\* the hardcoded stopword set of __init__
FALLBACK_STOP_WORDS ==
    {<<"t","h","e">>,
     <<"a">>,
     <<"a","n">>,
     <<"a","n","d">>,
     <<"o","r">>,
     <<"b","u","t">>,
     <<"i","n">>,
     <<"o","n">>,
     <<"a","t">>,
     <<"t","o">>,
     <<"f","o","r">>,
     <<"o","f">>,
     <<"w","i","t","h">>,
     <<"b","y">>}

\* words of stopwords.words('english') that the hardcoded set lacks (those the
\* modelled comments use)
NLTK_EXTRA_STOP_WORDS ==
    {<<"i">>,
     <<"t","h","i","s">>,
     <<"i","s">>,
     <<"s","o">>,
     <<"i","t">>,
     <<"w","a","s">>,
     <<"t","h","a","t">>,
     <<"n","o","t">>,
     <<"v","e","r","y">>}

NLTK_STOP_WORDS == FALLBACK_STOP_WORDS \cup NLTK_EXTRA_STOP_WORDS

(***************************************************************************)
(* State.  The analyzer's fields and the import-time flags are set once,   *)
(* by Init; the other variables hold the call in progress.                 *)
(***************************************************************************)
VARIABLES
    sentiment_analyzer,  \* self.sentiment_analyzer: "pipeline", or "None"
    emotion_analyzer,    \* self.emotion_analyzer: "pipeline", or "None"
    toxic_keywords,      \* self.toxic_keywords
    stop_words,          \* self.stop_words
    HAS_TEXTBLOB,        \* the import of textblob succeeded
    HAS_NLTK,            \* the import of nltk succeeded
    HAS_WORDCLOUD,       \* the imports of wordcloud and matplotlib succeeded
    pc,                  \* "idle": no call in progress; "done": a call returned
    call,                \* the operation called and its arguments
    backend,             \* what the third-party backends reply during the call
    result,              \* the value the call returned
    locals               \* the callee's local variables when it returned

fields == <<sentiment_analyzer, emotion_analyzer, toxic_keywords, stop_words>>

flags == <<HAS_TEXTBLOB, HAS_NLTK, HAS_WORDCLOUD>>

vars == <<sentiment_analyzer, emotion_analyzer, toxic_keywords, stop_words,
          HAS_TEXTBLOB, HAS_NLTK, HAS_WORDCLOUD, pc, call, backend, result, locals>>

(***************************************************************************)
(* The third-party backends.  A backend is a black box: its reply to the   *)
(* call made for the i-th comment of a list is entry i of a tape that the  *)
(* calling action draws; Raises is a call that raises an exception.        *)
(***************************************************************************)
Raises == [raises |-> TRUE]

\* replies of the transformers sentiment pipeline: result[0]
SentimentModelReplies ==
    {[label |-> "POSITIVE", score |-> 999], [label |-> "NEGATIVE", score |-> 998]}

\* replies of TextBlob(comment).sentiment: on, above and below the thresholds
TextBlobReplies == {[polarity |-> 500], [polarity |-> 100], [polarity |-> -500]}

\* replies of the transformers emotion pipeline: result[0]
EmotionModelReplies == {[label |-> "joy"], [label |-> "disgust"]}

(***************************************************************************)
(* Arithmetic and Counter                                                  *)
(***************************************************************************)
\* round(num / den, 0) for num >= 0 and den > 0: to the nearest integer, a tie
\* to the even one (Python's round)
RoundHalfEven(num, den) ==
    LET q == num \div den
        r == num % den
    IN  IF 2 * r < den THEN q
        ELSE IF 2 * r > den THEN q + 1
        ELSE IF q % 2 = 0 THEN q ELSE q + 1

\* round((count / total) * 100, 2), in hundredths of a percent
Percentage(count, total) == RoundHalfEven(count * 10000, total)

\* sum(s), added up by halves
RECURSIVE SumSeq(_)
SumSeq(s) ==
    IF s = <<>> THEN 0
    ELSE IF Len(s) = 1 THEN s[1]
    ELSE SumSeq(SubSeq(s, 1, Len(s) \div 2)) + SumSeq(SubSeq(s, (Len(s) \div 2) + 1, Len(s)))

\* dict(Counter(items)): each distinct item with the number of its occurrences
Counter(items) ==
    [x \in Range(items) |-> Cardinality({i \in DOMAIN items : items[i] = x})]

\* max(counts, key=counts.get) for counts = Counter(items), items not empty:
\* the first key, in order of first occurrence, whose count is the greatest
MaxKey(items) ==
    LET counts == Counter(items)
        first == CHOOSE i \in DOMAIN items :
                    /\ \A x \in DOMAIN counts : counts[x] <= counts[items[i]]
                    /\ \A j \in 1..(i - 1) : counts[items[j]] < counts[items[i]]
    IN  items[first]

\* sum(1 for word in words if word in text)
CountContained(words, text) ==
    Cardinality({k \in DOMAIN words : Contains(text, words[k])})

\* any(word in text for word in words)
AnyContained(words, text) == \E k \in DOMAIN words : Contains(text, words[k])

(***************************************************************************)
(* analyze_sentiment                                                       *)
(***************************************************************************)
\* comments with fewer characters than this after strip() are skipped
MIN_COMMENT_LENGTH == 3

\* TextBlob's polarity is POSITIVE above this, NEGATIVE below its negation
POLARITY_THRESHOLD == 100

\* the score of a POSITIVE or NEGATIVE label of the rule-based fallback
RULE_SCORE == 700

\* the score of a NEUTRAL label
NEUTRAL_SCORE == 500

\* the three appends of one strategy
Tally(st, label, score, tried) ==
    [sentiments |-> Append(st.sentiments, label),
     sentiment_scores |-> Append(st.sentiment_scores, score),
     tried |-> Append(st.tried, tried)]

\* the rule-based fallback of the loop body
rule_based_sentiment(comment) ==
    LET comment_lower == lower(comment)
        pos_count == CountContained(positive_words, comment_lower)
        neg_count == CountContained(negative_words, comment_lower)
    IN  IF pos_count > neg_count THEN [label |-> "POSITIVE", score |-> RULE_SCORE]
        ELSE IF neg_count > pos_count THEN [label |-> "NEGATIVE", score |-> RULE_SCORE]
        ELSE [label |-> "NEUTRAL", score |-> NEUTRAL_SCORE]

\* the TextBlob branch's label and score for a polarity
textblob_sentiment(polarity) ==
    IF polarity > POLARITY_THRESHOLD THEN [label |-> "POSITIVE", score |-> polarity]
    ELSE IF polarity < -POLARITY_THRESHOLD THEN [label |-> "NEGATIVE", score |-> -polarity]
    ELSE [label |-> "NEUTRAL", score |-> NEUTRAL_SCORE]

\* the loop body after the transformers branch: TextBlob, then the rules.
\* tried lists the strategies the body has attempted for this comment so far
sentiment_fallback(st, comment, blob, i, tried) ==
    IF HAS_TEXTBLOB /\ blob[i] # Raises
    THEN LET r == textblob_sentiment(blob[i].polarity)
         IN  Tally(st, r.label, r.score, Append(tried, "textblob"))
    ELSE LET r == rule_based_sentiment(comment)
         IN  Tally(st, r.label, r.score,
                   (IF HAS_TEXTBLOB THEN Append(tried, "textblob") ELSE tried) \o <<"rules">>)

\* a loop body without the continue that ends the transformers branch
sentiment_step_falls_through(st, comment, model, blob, i) ==
    IF Len(strip(comment)) < MIN_COMMENT_LENGTH THEN st
    ELSE IF sentiment_analyzer # "None" /\ model[i] # Raises
    THEN sentiment_fallback(
             Tally(st, model[i].label, model[i].score, <<"transformers">>),
             comment, blob, i, <<"transformers">>)
    ELSE sentiment_fallback(st, comment, blob, i,
             IF sentiment_analyzer # "None" THEN <<"transformers">> ELSE <<>>)

\* one iteration of the loop over comments, for comments[i]
sentiment_step(st, comment, model, blob, i) ==
    IF Len(strip(comment)) < MIN_COMMENT_LENGTH THEN st
    ELSE IF sentiment_analyzer # "None" /\ model[i] # Raises
    THEN Tally(st, model[i].label, model[i].score, <<"transformers">>)
    ELSE sentiment_fallback(st, comment, blob, i,
             IF sentiment_analyzer # "None" THEN <<"transformers">> ELSE <<>>)

\* what the iterations for comments[from] .. comments[to] append to the locals:
\* what those of the first half of the range append, then those of the second
RECURSIVE sentiment_loop(_, _, _, _, _)
sentiment_loop(comments, model, blob, from, to) ==
    LET none == [sentiments |-> <<>>, sentiment_scores |-> <<>>, tried |-> <<>>]
    IN  IF from > to THEN none
        ELSE IF from = to THEN sentiment_step(none, comments[from], model, blob, from)
        ELSE LET mid == (from + to) \div 2
                 first == sentiment_loop(comments, model, blob, from, mid)
                 second == sentiment_loop(comments, model, blob, mid + 1, to)
             IN  [k \in DOMAIN none |-> first[k] \o second[k]]

\* the locals sentiments and sentiment_scores (and the strategies attempted for
\* each tallied comment) when the loop ends
sentiment_locals(comments, model, blob) ==
    sentiment_loop(comments, model, blob, 1, Len(comments))

\* the record analyze_sentiment builds from its locals
sentiment_record(sentiments, sentiment_scores) ==
    LET sentiment_counts == Counter(sentiments)
        total_comments == Len(sentiments)
    IN  IF total_comments = 0 THEN [error |-> "No valid comments to analyze"]
        ELSE [total_comments |-> total_comments,
              sentiment_distribution |-> sentiment_counts,
              sentiment_percentages |->
                  [s \in DOMAIN sentiment_counts |->
                      Percentage(sentiment_counts[s], total_comments)],
              average_sentiment_score |->
                  IF sentiment_scores # <<>>
                  THEN RoundHalfEven(SumSeq(sentiment_scores), Len(sentiment_scores))
                  ELSE 0,
              overall_sentiment |-> MaxKey(sentiments)]

analyze_sentiment(comments, model, blob) ==
    IF comments = <<>> THEN [error |-> "No comments provided"]
    ELSE LET st == sentiment_locals(comments, model, blob)
         IN  sentiment_record(st.sentiments, st.sentiment_scores)

(***************************************************************************)
(* analyze_emotions                                                        *)
(***************************************************************************)
\* the rule-based emotion of the loop body
rule_based_emotion(comment) ==
    LET comment_lower == lower(comment)
    IN  IF AnyContained(joy_words, comment_lower) THEN "joy"
        ELSE IF AnyContained(anger_words, comment_lower) THEN "anger"
        ELSE IF AnyContained(sadness_words, comment_lower) THEN "sadness"
        ELSE IF AnyContained(fear_words, comment_lower) THEN "fear"
        ELSE IF AnyContained(surprise_words, comment_lower) THEN "surprise"
        ELSE "neutral"

\* a loop body that does not skip the short comments
emotion_step_counts_all(emotions, comment, model, i) ==
    IF emotion_analyzer # "None" /\ model[i] # Raises
    THEN Append(emotions, model[i].label)
    ELSE Append(emotions, rule_based_emotion(comment))

\* one iteration of the loop over comments, for comments[i]
emotion_step(emotions, comment, model, i) ==
    IF Len(strip(comment)) < MIN_COMMENT_LENGTH THEN emotions
    ELSE IF emotion_analyzer # "None" /\ model[i] # Raises
    THEN Append(emotions, model[i].label)
    ELSE Append(emotions, rule_based_emotion(comment))

\* what the iterations for comments[from] .. comments[to] append to emotions
RECURSIVE emotion_loop(_, _, _, _)
emotion_loop(comments, model, from, to) ==
    IF from > to THEN <<>>
    ELSE IF from = to THEN emotion_step(<<>>, comments[from], model, from)
    ELSE LET mid == (from + to) \div 2
         IN  emotion_loop(comments, model, from, mid)
             \o emotion_loop(comments, model, mid + 1, to)

\* the local emotions when the loop ends
emotion_locals(comments, model) == emotion_loop(comments, model, 1, Len(comments))

\* a record whose percentages are taken of all the comments passed in
emotion_record_of_all(emotions, comments) ==
    LET emotion_counts == Counter(emotions)
    IN  IF Len(emotions) = 0 THEN [error |-> "No valid comments to analyze"]
        ELSE [emotion_distribution |-> emotion_counts,
              emotion_percentages |->
                  [e \in DOMAIN emotion_counts |->
                      Percentage(emotion_counts[e], Len(comments))],
              dominant_emotion |-> MaxKey(emotions)]

\* the record analyze_emotions builds from its local emotions
emotion_record(emotions, comments) ==
    LET emotion_counts == Counter(emotions)
        total_comments == Len(emotions)
    IN  IF total_comments = 0 THEN [error |-> "No valid comments to analyze"]
        ELSE [emotion_distribution |-> emotion_counts,
              emotion_percentages |->
                  [e \in DOMAIN emotion_counts |->
                      Percentage(emotion_counts[e], total_comments)],
              dominant_emotion |-> MaxKey(emotions)]

analyze_emotions(comments, model) ==
    IF comments = <<>> THEN [error |-> "No comments provided"]
    ELSE emotion_record(emotion_locals(comments, model), comments)

(***************************************************************************)
(* detect_toxicity                                                         *)
(***************************************************************************)
\* an all-caps comment is spam when longer than this
ALL_CAPS_MIN_LENGTH == 20

\* a comment of few distinct characters is spam when longer than this
REPETITIVE_MIN_LENGTH == 15

\* ... and few is fewer than this
REPETITIVE_MAX_DISTINCT == 5

\* the length the spam checks start at
SPAM_CHECK_MIN_LENGTH == 10

\* examples are cut to this many characters
EXAMPLE_LENGTH == 100

\* this many examples are returned
EXAMPLE_COUNT == 5

\* comment[:100] + "..." if len(comment) > 100 else comment
Excerpt(comment) ==
    IF Len(comment) > EXAMPLE_LENGTH
    THEN SubSeq(comment, 1, EXAMPLE_LENGTH) \o <<".", ".", ".">>
    ELSE comment

\* seq[:n]
Prefix(seq, n) == SubSeq(seq, 1, IF Len(seq) < n THEN Len(seq) ELSE n)

\* the toxicity check of the loop body, for comments[i] (enumerate counts from 0)
toxic_check(toxic_comments, comment, i) ==
    IF AnyContained(toxic_keywords, lower(comment))
    THEN Append(toxic_comments,
                [index |-> i - 1, comment |-> Excerpt(comment),
                 reason |-> "Contains toxic keywords"])
    ELSE toxic_comments

\* a spam check whose second test is an if of its own, not an elif
spam_check_two_ifs(spam_comments, comment, i) ==
    LET caps == IF isupper(comment) /\ Len(comment) > ALL_CAPS_MIN_LENGTH
                THEN Append(spam_comments,
                            [index |-> i - 1, comment |-> Excerpt(comment),
                             reason |-> "All caps"])
                ELSE spam_comments
    IN  IF Len(comment) > SPAM_CHECK_MIN_LENGTH
        THEN IF DistinctChars(comment) < REPETITIVE_MAX_DISTINCT
                /\ Len(comment) > REPETITIVE_MIN_LENGTH
             THEN Append(caps,
                         [index |-> i - 1, comment |-> Excerpt(comment),
                          reason |-> "Repetitive characters"])
             ELSE caps
        ELSE spam_comments

\* the spam check of the loop body, for comments[i]
spam_check(spam_comments, comment, i) ==
    IF Len(comment) > SPAM_CHECK_MIN_LENGTH
    THEN IF isupper(comment) /\ Len(comment) > ALL_CAPS_MIN_LENGTH
         THEN Append(spam_comments,
                     [index |-> i - 1, comment |-> Excerpt(comment),
                      reason |-> "All caps"])
         ELSE IF DistinctChars(comment) < REPETITIVE_MAX_DISTINCT
                 /\ Len(comment) > REPETITIVE_MIN_LENGTH
         THEN Append(spam_comments,
                     [index |-> i - 1, comment |-> Excerpt(comment),
                      reason |-> "Repetitive characters"])
         ELSE spam_comments
    ELSE spam_comments

\* what the iterations for comments[from] .. comments[to] append to the locals
RECURSIVE toxicity_loop(_, _, _)
toxicity_loop(comments, from, to) ==
    IF from > to THEN [toxic_comments |-> <<>>, spam_comments |-> <<>>]
    ELSE IF from = to
    THEN [toxic_comments |-> toxic_check(<<>>, comments[from], from),
          spam_comments |-> spam_check(<<>>, comments[from], from)]
    ELSE LET mid == (from + to) \div 2
             first == toxicity_loop(comments, from, mid)
             second == toxicity_loop(comments, mid + 1, to)
         IN  [toxic_comments |-> first.toxic_comments \o second.toxic_comments,
              spam_comments |-> first.spam_comments \o second.spam_comments]

\* the locals toxic_comments and spam_comments when the loop ends
toxicity_locals(comments) ==
    toxicity_loop(comments, 1, Len(comments))

detect_toxicity(comments) ==
    LET st == toxicity_locals(comments)
        total_comments == Len(comments)
    IN  [total_comments |-> total_comments,
         toxic_comments |-> Len(st.toxic_comments),
         toxic_percentage |->
             IF total_comments > 0
             THEN Percentage(Len(st.toxic_comments), total_comments) ELSE 0,
         spam_comments |-> Len(st.spam_comments),
         spam_percentage |->
             IF total_comments > 0
             THEN Percentage(Len(st.spam_comments), total_comments) ELSE 0,
         toxic_examples |-> Prefix(st.toxic_comments, EXAMPLE_COUNT),
         spam_examples |-> Prefix(st.spam_comments, EXAMPLE_COUNT)]

(***************************************************************************)
(* extract_keywords                                                        *)
(***************************************************************************)
\* the top_n of extract_keywords when the caller gives none
DEFAULT_TOP_N == 20

\* a token counts as a keyword when longer than this
KEYWORD_MIN_LENGTH == 2

\* nltk's word_tokenize on cleaned text (word characters, single spaces and
\* ! ? . , only): the runs of word characters, and each punctuation character
\* as a token of its own.  The modelled comments have no punctuation inside a
\* word, where the real tokenizer's rules differ.
RECURSIVE WordTokenizeFrom(_, _, _)
WordTokenizeFrom(s, i, word) ==
    LET flush == IF word = <<>> THEN <<>> ELSE <<word>>
    IN  IF i > Len(s) THEN flush
        ELSE IF s[i] \in Whitespace THEN flush \o WordTokenizeFrom(s, i + 1, <<>>)
        ELSE IF s[i] \in WordChars THEN WordTokenizeFrom(s, i + 1, Append(word, s[i]))
        ELSE flush \o <<<<s[i]>>>> \o WordTokenizeFrom(s, i + 1, <<>>)

word_tokenize(s) == WordTokenizeFrom(s, 1, <<>>)

\* the tokens of one comment: cleaned, lower-cased, tokenized
Tokens(comment) ==
    LET clean_comment == clean_text(lower(comment))
    IN  IF HAS_NLTK THEN word_tokenize(clean_comment) ELSE split(clean_comment)

\* the filter of the loop body
IsKeyword(word) ==
    isalpha(word) /\ Len(word) > KEYWORD_MIN_LENGTH /\ word \notin stop_words

\* filtered_words of one comment
filtered_words(comment) == SelectSeq(Tokens(comment), IsKeyword)

\* all_words when the loop ends
RECURSIVE all_words(_)
all_words(comments) ==
    IF comments = <<>> THEN <<>>
    ELSE IF Len(comments) = 1 THEN filtered_words(comments[1])
    ELSE all_words(SubSeq(comments, 1, Len(comments) \div 2))
         \o all_words(SubSeq(comments, (Len(comments) \div 2) + 1, Len(comments)))

\* the distinct items in order of first occurrence: a Counter's key order
KeysInOrder(items) ==
    LET First(i) == \A j \in 1..(i - 1) : items[j] # items[i]
        firsts == SelectSeq([i \in 1..Len(items) |-> i], First)
    IN  [k \in DOMAIN firsts |-> items[firsts[k]]]

\* Counter(items).most_common(n) that keeps the order of first occurrence
most_common_unsorted(items, n) ==
    LET keys == KeysInOrder(items)
        counts == Counter(items)
    IN  [k \in 1..(IF n < Len(keys) THEN n ELSE Len(keys)) |->
            [word |-> keys[k], count |-> counts[keys[k]]]]

\* Counter(items).most_common(n), n >= 0: the n greatest counts first, equal
\* counts in order of first occurrence
most_common(items, n) ==
    LET keys == KeysInOrder(items)
        counts == Counter(items)
        Before(a, b) == counts[keys[a]] > counts[keys[b]]
                        \/ (counts[keys[a]] = counts[keys[b]] /\ a < b)
        rank == [a \in DOMAIN keys |-> 1 + Cardinality({b \in DOMAIN keys : Before(b, a)})]
    IN  [k \in 1..(IF n < Len(keys) THEN n ELSE Len(keys)) |->
            LET a == CHOOSE a \in DOMAIN keys : rank[a] = k
            IN  [word |-> keys[a], count |-> counts[keys[a]]]]

extract_keywords(comments, top_n) == most_common(all_words(comments), top_n)

(***************************************************************************)
(* analyze_comment_patterns                                                *)
(***************************************************************************)
\* sorted(lengths)
Sorted(s) ==
    LET \* the number of elements up to v
        upto == [v \in Range(s) |-> Cardinality({i \in DOMAIN s : s[i] <= v})]
    IN  [k \in DOMAIN s |->
            CHOOSE v \in Range(s) :
               upto[v] >= k /\ \A w \in Range(s) : w < v => upto[w] < k]

\* a count of the occurrences of c, not of the comments that have one
CountOccurrences(comments, c) ==
    Cardinality({<<i, k>> \in (DOMAIN comments) \X (1..100) :
                    k <= Len(comments[i]) /\ comments[i][k] = c})

\* sum(1 for comment in comments if c in comment)
CountWith(comments, c) == Cardinality({i \in DOMAIN comments : HasChar(comments[i], c)})

analyze_comment_patterns(comments) ==
    IF comments = <<>> THEN [error |-> "No comments to analyze"]
    ELSE LET lengths == [i \in DOMAIN comments |-> Len(comments[i])]
             exclamations == CountWith(comments, "!")
             questions == CountWith(comments, "?")
             mentions == CountWith(comments, "@")
             ascending == Sorted(lengths)
         IN  [total_comments |-> Len(comments),
              average_length |-> RoundHalfEven(SumSeq(lengths) * 100, Len(lengths)),
              median_length |-> ascending[(Len(lengths) \div 2) + 1],
              longest_comment |-> ascending[Len(lengths)],
              shortest_comment |-> ascending[1],
              exclamation_percentage |-> Percentage(exclamations, Len(comments)),
              question_percentage |-> Percentage(questions, Len(comments)),
              mention_percentage |-> Percentage(mentions, Len(comments))]

(***************************************************************************)
(* generate_wordcloud                                                      *)
(***************************************************************************)
\* rendering replies: the image, or an exception
RenderReplies == {[image |-> "png"], Raises}

\* [self.clean_text(comment) for comment in comments]
CleanAll(comments) == [i \in DOMAIN comments |-> clean_text(comments[i])]

generate_wordcloud(comments, render) ==
    IF ~HAS_WORDCLOUD THEN ""
    ELSE LET text == JoinSpace(CleanAll(comments))
         IN  IF Len(strip(text)) = 0 THEN ""
             ELSE IF render = Raises THEN ""
             ELSE "data:image/png;base64"

(***************************************************************************)
(* get_comprehensive_analysis                                              *)
(***************************************************************************)
\* [self.clean_text(comment) for comment in comments if comment] : a filter
\* that tests the comment itself, not comment.strip()
cleaned_comments_unstripped(comments) ==
    LET Kept(comment) == comment # <<>>
    IN  CleanAll(SelectSeq(comments, Kept))

\* [self.clean_text(comment) for comment in comments if comment.strip()]
cleaned_comments(comments) ==
    LET Kept(comment) == strip(comment) # <<>>
    IN  CleanAll(SelectSeq(comments, Kept))

\* the keys of the report, one per analysis pass
Passes ==
    {"sentiment_analysis", "emotion_analysis", "toxicity_analysis", "keywords",
     "comment_patterns", "wordcloud"}

\* the list each pass that ran was handed: none ran when the call returned early
passes_handed(comments) ==
    IF comments = <<>> \/ cleaned_comments(comments) = <<>>
    THEN [p \in {} |-> <<>>]
    ELSE [p \in Passes |-> cleaned_comments(comments)]

get_comprehensive_analysis(comments, b) ==
    IF comments = <<>> THEN [error |-> "No comments provided"]
    ELSE LET cleaned == cleaned_comments(comments)
         IN  IF cleaned = <<>> THEN [error |-> "No valid comments after cleaning"]
             ELSE [sentiment_analysis |-> analyze_sentiment(cleaned, b.sentiment, b.textblob),
                   emotion_analysis |-> analyze_emotions(cleaned, b.emotion),
                   toxicity_analysis |-> detect_toxicity(cleaned),
                   keywords |-> extract_keywords(cleaned, DEFAULT_TOP_N),
                   comment_patterns |-> analyze_comment_patterns(cleaned),
                   wordcloud |-> generate_wordcloud(cleaned, b.render)]

(***************************************************************************)
(* The endpoints of main.py.  A response is an AnalysisResponse: success,  *)
(* and data or error when given.  raise HTTPException(400, detail) inside  *)
(* a handler's try is caught by its except Exception, which answers with   *)
(* the failure envelope.                                                   *)
(***************************************************************************)
\* /analyze analyzes this many comments at most
ANALYZE_LIMIT == 1000

\* /analyze/sentiment analyzes this many comments at most
SENTIMENT_LIMIT == 500

\* the top_n of /analyze/keywords
KEYWORDS_ENDPOINT_TOP_N == 30

Failure(message) == [success |-> FALSE, error |-> message]

Success(data) == [success |-> TRUE, data |-> data]

\* comments_to_analyze without the limit
comments_to_analyze_all(request) == request.comments

\* comments_to_analyze of analyze_comments
comments_to_analyze(request) ==
    IF Len(request.comments) > ANALYZE_LIMIT
    THEN Prefix(request.comments, ANALYZE_LIMIT)
    ELSE request.comments

\* analysis_result["metadata"] = {...}
WithMetadata(analysis_result, request) ==
    [k \in DOMAIN analysis_result \cup {"metadata"} |->
        IF k = "metadata"
        THEN [video_id |-> request.video_id,
              video_title |-> request.video_title,
              total_comments_received |-> Len(request.comments),
              comments_analyzed |-> Len(comments_to_analyze(request)),
              analysis_version |-> "1.0.0"]
        ELSE analysis_result[k]]

\* POST /analyze
analyze_comments(request, b) ==
    IF request.comments = <<>>
    THEN Failure("Analysis failed: 400: No comments provided")
    ELSE Success(WithMetadata(
             get_comprehensive_analysis(comments_to_analyze(request), b), request))

\* POST /analyze/sentiment
analyze_sentiment_only(request, b) ==
    IF request.comments = <<>>
    THEN Failure("Sentiment analysis failed: 400: No comments provided")
    ELSE LET cleaned == cleaned_comments(Prefix(request.comments, SENTIMENT_LIMIT))
         IN  IF cleaned = <<>>
             THEN Failure("Sentiment analysis failed: 400: No valid comments after cleaning")
             ELSE Success(analyze_sentiment(cleaned, b.sentiment, b.textblob))

\* POST /analyze/toxicity
analyze_toxicity_only(request) ==
    IF request.comments = <<>>
    THEN Failure("Toxicity analysis failed: 400: No comments provided")
    ELSE LET cleaned == cleaned_comments(request.comments)
         IN  IF cleaned = <<>>
             THEN Failure("Toxicity analysis failed: 400: No valid comments after cleaning")
             ELSE Success(detect_toxicity(cleaned))

\* POST /analyze/keywords
extract_keywords_only(request) ==
    IF request.comments = <<>>
    THEN Failure("Keyword extraction failed: 400: No comments provided")
    ELSE LET cleaned == cleaned_comments(request.comments)
         IN  IF cleaned = <<>>
             THEN Failure("Keyword extraction failed: 400: No valid comments after cleaning")
             ELSE Success([keywords |-> extract_keywords(cleaned, KEYWORDS_ENDPOINT_TOP_N)])

(***************************************************************************)
(* The comments the calls are made with.                                   *)
(***************************************************************************)

\* the empty string
c_empty == <<>>

\* whitespace only
c_blank == <<" ","\t">>

\* under 3 characters
c_ok == <<"o","k">>

\* only characters that clean_text removes
c_symbols == <<"@","#">>

\* a mention and a question
c_mention == <<"h","i"," ","@","b","o","b","?">>

\* an exclamation
c_wow == <<"w","o","w","!">>

\* a URL with a question mark and an exclamation mark in it
c_url == <<"s","e","e"," ","h","t","t","p",":","/","/","a",".","c","o","/","?","x","!">>

\* the first comment of the spec's example
c_love_this == <<"I"," ","l","o","v","e"," ","t","h","i","s","!","!">>

\* the second comment of the spec's example
c_hate_this == <<"I"," ","H","A","T","E"," ","T","H","I","S"," ","S","O"," ","M","U","C","H">>

\* 4 characters, 2 after strip()
c_padded_ok == <<" ","o","k"," ">>

c_love == <<"l","o","v","e">>

c_hate == <<"h","a","t","e">>

c_meh == <<"m","e","h">>

\* 16 identical characters
c_a16 == <<"a","a","a","a","a","a","a","a","a","a","a","a","a","a","a","a">>

\* 15 identical characters
c_a15 == <<"a","a","a","a","a","a","a","a","a","a","a","a","a","a","a">>

\* 28 characters, upper-case
c_spam_text == <<"T","H","I","S"," ","I","S"," ","D","E","F","I","N","I","T","E","L","Y"," ","S","P","A","M"," ","T","E","X","T">>

\* 20 characters, upper-case
c_caps20 == <<"T","H","I","S"," ","I","S"," ","S","P","A","M"," ","T","E","X","T"," ","O","K">>

\* 21 characters, upper-case
c_caps21 == <<"T","H","I","S"," ","I","S"," ","S","P","A","M"," ","T","E","X","T"," ","O","K","!">>

\* 21 identical upper-case characters
c_A21 == <<"A","A","A","A","A","A","A","A","A","A","A","A","A","A","A","A","A","A","A","A","A">>

\* 16 identical upper-case characters
c_A16 == <<"A","A","A","A","A","A","A","A","A","A","A","A","A","A","A","A">>

\* 16 characters, 4 distinct
c_abcd16 == <<"a","b","c","d","a","b","c","d","a","b","c","d","a","b","c","d">>

\* 16 characters, 5 distinct
c_abcde16 == <<"a","b","c","d","e","a","b","c","d","e","a","b","c","d","e","a">>

\* a toxic keyword
c_stupid == <<"y","o","u"," ","a","r","e"," ","S","T","U","P","I","D">>

c_cat_sat == <<"t","h","e"," ","c","a","t"," ","s","a","t">>

c_cat_ran == <<"t","h","e"," ","c","a","t"," ","r","a","n">>

c_dog_cat == <<"A"," ","d","o","g",","," ","a"," ","c","a","t","!">>

c_ran_ran == <<"i","t"," ","r","a","n"," ","r","a","n"," ","4","2"," ","k","m">>

PipelineComments ==
    {c_empty, c_blank, c_ok, c_symbols, c_mention, c_wow, c_url}

\* the input of the spec's example
ExampleComments == <<c_love_this, c_hate_this>>

SentimentComments == {c_padded_ok, c_love, c_hate, c_meh}

\* three comments that the rules give three labels
ThreeComments == <<c_love, c_hate, c_meh>>

ToxicityComments ==
    {c_a16, c_a15, c_spam_text, c_caps20, c_caps21, c_A21, c_A16, c_abcd16, c_abcde16, c_stupid}

KeywordComments == {c_empty, c_cat_sat, c_cat_ran, c_dog_cat, c_ran_ran}

(***************************************************************************)
(* Bounds, and the inputs the actions draw.                                *)
(***************************************************************************)
\* the longest list of comments drawn from a set of comments
MaxComments == 2

\* the greatest top_n drawn besides the two the program uses
MaxTopN == 2

\* the most comments a list has beyond a limit of the service
MaxBeyond == 1

\* the comments at the end of a long list
TailComments == {c_wow, c_hate}

\* n times the same comment
Repeat(comment, n) == [i \in 1..n |-> comment]

\* the lists about as long as a limit: one comment short of it, as long, and up
\* to MaxBeyond longer; all comments are "meh" but the one at the limit and
\* those beyond it
ListsAbout(limit) ==
    {Repeat(c_meh, limit - 1)}
    \cup UNION {{Repeat(c_meh, limit - 1) \o tail : tail \in [1..n -> TailComments]} :
                   n \in 1..(1 + MaxBeyond)}

\* the lists of at most MaxComments comments of a set
Lists(comments) == UNION {[1..n -> comments] : n \in 0..MaxComments}

\* a CommentRequest with the default video_id and video_title
Request(comments) == [comments |-> comments, video_id |-> "", video_title |-> ""]

\* the tapes of a backend for a list of n comments: any reply to each call
Tapes(present, replies, n) ==
    IF present THEN [1..n -> replies \cup {Raises}] ELSE {<<>>}

\* the tapes on which the backend replies to every call alike
SteadyTapes(present, replies, n) ==
    IF present THEN {[i \in 1..n |-> r] : r \in replies \cup {Raises}} ELSE {<<>>}

\* no backend takes part in the call
NoBackend == [sentiment |-> <<>>, textblob |-> <<>>, emotion |-> <<>>, render |-> Raises]

\* the replies drawn for a steady backend: one of each kind
SteadySentimentReplies == {[label |-> "POSITIVE", score |-> 999]}

SteadyTextBlobReplies == {[polarity |-> 500]}

SteadyEmotionReplies == {[label |-> "disgust"]}

\* the backends of a call that hands a list of n comments to analyze_sentiment
SteadySentimentBackends(n) ==
    {[NoBackend EXCEPT !.sentiment = model, !.textblob = blob] :
        model \in SteadyTapes(sentiment_analyzer # "None", SteadySentimentReplies, n),
        blob \in SteadyTapes(HAS_TEXTBLOB, SteadyTextBlobReplies, n)}

\* the backends of a call that hands a list of n comments to every pass
SteadyBackends(n) ==
    {[b EXCEPT !.emotion = model, !.render = render] :
        b \in SteadySentimentBackends(n),
        model \in SteadyTapes(emotion_analyzer # "None", SteadyEmotionReplies, n),
        render \in IF HAS_WORDCLOUD THEN RenderReplies ELSE {Raises}}

NoCall == [op |-> "none"]

NoResult == [none |-> TRUE]

NoLocals == [none |-> TRUE]

(***************************************************************************)
(* Init: CommentAnalyzer.__init__ after the imports.  Each optional import *)
(* and each model load either succeeded or failed.                         *)
(***************************************************************************)
Init ==
    /\ sentiment_analyzer \in {"pipeline", "None"}
    /\ emotion_analyzer \in {"pipeline", "None"}
    /\ toxic_keywords = TOXIC_KEYWORDS
    /\ HAS_TEXTBLOB \in BOOLEAN
    /\ HAS_NLTK \in BOOLEAN
    /\ HAS_WORDCLOUD \in BOOLEAN
    /\ stop_words \in (IF HAS_NLTK THEN {NLTK_STOP_WORDS, FALLBACK_STOP_WORDS}
                                   ELSE {FALLBACK_STOP_WORDS})
    /\ pc = "idle"
    /\ call = NoCall
    /\ backend = NoBackend
    /\ result = NoResult
    /\ locals = NoLocals

\* the caller takes the returned value; the analyzer is ready for the next call
Return ==
    /\ pc \in {"done", "again"}
    /\ pc' = "idle"
    /\ call' = NoCall
    /\ backend' = NoBackend
    /\ result' = NoResult
    /\ locals' = NoLocals
    /\ UNCHANGED <<fields, flags>>

(***************************************************************************)
(* Calls of the analyzer's methods.  Each action is one whole call: it     *)
(* draws the arguments and the backends' replies and leaves the returned   *)
(* value in result.                                                        *)
(***************************************************************************)
\* a call that releases the sentiment model when it returns
Returned_releasing(op, b, value, frame) ==
    /\ call' = op
    /\ backend' = b
    /\ result' = value
    /\ locals' = frame
    /\ pc' = "done"
    /\ sentiment_analyzer' = "None"
    /\ UNCHANGED <<emotion_analyzer, toxic_keywords, stop_words, flags>>

Returned(op, b, value, frame) ==
    /\ call' = op
    /\ backend' = b
    /\ result' = value
    /\ locals' = frame
    /\ pc' = "done"
    /\ UNCHANGED <<fields, flags>>

\* comment_analyzer.analyze_sentiment(comments)
SentimentCall ==
    /\ pc = "idle"
    /\ \E comments \in Lists(SentimentComments) \cup {ThreeComments} :
       \E model \in Tapes(sentiment_analyzer # "None", SentimentModelReplies, Len(comments)) :
       \E blob \in Tapes(HAS_TEXTBLOB, TextBlobReplies, Len(comments)) :
          Returned([op |-> "analyze_sentiment", comments |-> comments],
                   [NoBackend EXCEPT !.sentiment = model, !.textblob = blob],
                   analyze_sentiment(comments, model, blob),
                   sentiment_locals(comments, model, blob))

\* comment_analyzer.analyze_emotions(comments)
EmotionsCall ==
    /\ pc = "idle"
    /\ \E comments \in Lists(SentimentComments) \cup {ThreeComments} :
       \E model \in Tapes(emotion_analyzer # "None", EmotionModelReplies, Len(comments)) :
          Returned([op |-> "analyze_emotions", comments |-> comments],
                   [NoBackend EXCEPT !.emotion = model],
                   analyze_emotions(comments, model),
                   [emotions |-> emotion_locals(comments, model)])

\* comment_analyzer.detect_toxicity(comments)
ToxicityCall ==
    /\ pc = "idle"
    /\ \E comments \in Lists(ToxicityComments) :
          Returned([op |-> "detect_toxicity", comments |-> comments],
                   NoBackend,
                   [value |-> detect_toxicity(comments)],
                   toxicity_locals(comments))

\* comment_analyzer.extract_keywords(comments, top_n)
KeywordsCall ==
    /\ pc = "idle"
    /\ \E comments \in Lists(KeywordComments) :
       \E top_n \in (0..MaxTopN) \cup {DEFAULT_TOP_N, KEYWORDS_ENDPOINT_TOP_N} :
          Returned([op |-> "extract_keywords", comments |-> comments, top_n |-> top_n],
                   NoBackend,
                   [value |-> extract_keywords(comments, top_n)],
                   [all_words |-> all_words(comments)])

\* comment_analyzer.get_comprehensive_analysis(comments)
ComprehensiveCall ==
    /\ pc = "idle"
    /\ \E comments \in Lists(PipelineComments) \cup {ExampleComments} :
       \E b \in SteadyBackends(Len(cleaned_comments(comments))) :
          Returned([op |-> "get_comprehensive_analysis", comments |-> comments],
                   b,
                   get_comprehensive_analysis(comments, b),
                   [passes |-> passes_handed(comments)])

\* the caller calls get_comprehensive_analysis again with the list it passed
\* before, and the backends reply as before
ComprehensiveAgain ==
    /\ pc = "done"
    /\ call.op = "get_comprehensive_analysis"
    /\ call' = call
    /\ backend' = backend
    /\ result' = get_comprehensive_analysis(call.comments, backend)
    /\ locals' = [passes |-> passes_handed(call.comments)]
    /\ pc' = "again"
    /\ UNCHANGED <<fields, flags>>

(***************************************************************************)
(* Requests to the service.  Each action is one whole handler.             *)
(***************************************************************************)
\* the handler of POST /analyze, for a request with these comments
AnalyzeRequest(comments) ==
    \E b \in SteadyBackends(Len(cleaned_comments(comments_to_analyze(Request(comments))))) :
       Returned([op |-> "POST /analyze", request |-> Request(comments)],
                b,
                analyze_comments(Request(comments), b),
                [passes |-> passes_handed(comments_to_analyze(Request(comments)))])

\* the handler of POST /analyze/sentiment, for a request with these comments
AnalyzeSentimentRequest(comments) ==
    \E b \in SteadySentimentBackends(
                 Len(cleaned_comments(Prefix(comments, SENTIMENT_LIMIT)))) :
       Returned([op |-> "POST /analyze/sentiment", request |-> Request(comments)],
                b,
                analyze_sentiment_only(Request(comments), b),
                NoLocals)

PostAnalyze ==
    /\ pc = "idle"
    /\ \E comments \in Lists(PipelineComments) : AnalyzeRequest(comments)

PostAnalyzeSentiment ==
    /\ pc = "idle"
    /\ \E comments \in Lists(PipelineComments) : AnalyzeSentimentRequest(comments)

\* POST /analyze with a list about as long as its limit
PostAnalyzeMany ==
    /\ pc = "idle"
    /\ \E comments \in ListsAbout(ANALYZE_LIMIT) : AnalyzeRequest(comments)

\* POST /analyze/sentiment with a list about as long as its limit
PostAnalyzeSentimentMany ==
    /\ pc = "idle"
    /\ \E comments \in ListsAbout(SENTIMENT_LIMIT) : AnalyzeSentimentRequest(comments)

PostAnalyzeToxicity ==
    /\ pc = "idle"
    /\ \E comments \in Lists(PipelineComments) :
          Returned([op |-> "POST /analyze/toxicity", request |-> Request(comments)],
                   NoBackend,
                   analyze_toxicity_only(Request(comments)),
                   NoLocals)

PostAnalyzeKeywords ==
    /\ pc = "idle"
    /\ \E comments \in Lists(PipelineComments) :
          Returned([op |-> "POST /analyze/keywords", request |-> Request(comments)],
                   NoBackend,
                   extract_keywords_only(Request(comments)),
                   NoLocals)

(***************************************************************************)
(* Specifications                                                          *)
(***************************************************************************)
\* the service: requests to the four endpoints, one after the other
Next ==
    \/ PostAnalyze
    \/ PostAnalyzeSentiment
    \/ PostAnalyzeToxicity
    \/ PostAnalyzeKeywords
    \/ Return

Spec == Init /\ [][Next]_vars

\* calls of get_comprehensive_analysis
NextPipeline == ComprehensiveCall \/ Return

SpecPipeline == Init /\ [][NextPipeline]_vars

\* calls of analyze_sentiment and analyze_emotions, which read neither
\* HAS_NLTK nor HAS_WORDCLOUD
InitSentiment == Init /\ ~HAS_NLTK /\ ~HAS_WORDCLOUD

NextSentiment == SentimentCall \/ EmotionsCall \/ Return

SpecSentiment == InitSentiment /\ [][NextSentiment]_vars

\* calls of detect_toxicity, which reads self.toxic_keywords only
InitToxicity ==
    /\ Init
    /\ sentiment_analyzer = "None" /\ emotion_analyzer = "None"
    /\ ~HAS_TEXTBLOB /\ ~HAS_NLTK /\ ~HAS_WORDCLOUD

NextToxicity == ToxicityCall \/ Return

SpecToxicity == InitToxicity /\ [][NextToxicity]_vars

\* calls of extract_keywords, which reads HAS_NLTK and self.stop_words only
InitKeywords ==
    /\ Init
    /\ sentiment_analyzer = "None" /\ emotion_analyzer = "None"
    /\ ~HAS_TEXTBLOB /\ ~HAS_WORDCLOUD

NextKeywords == KeywordsCall \/ Return

SpecKeywords == InitKeywords /\ [][NextKeywords]_vars

\* requests of any length to the two endpoints that limit it
InitLimits == Init /\ emotion_analyzer = "None" /\ ~HAS_NLTK /\ ~HAS_WORDCLOUD

NextLimits ==
    \/ PostAnalyze
    \/ PostAnalyzeSentiment
    \/ PostAnalyzeMany
    \/ PostAnalyzeSentimentMany
    \/ Return

SpecLimits == InitLimits /\ [][NextLimits]_vars

\* one analyzer serving requests to every endpoint and calls of every method,
\* in any order
NextService ==
    \/ PostAnalyze
    \/ PostAnalyzeSentiment
    \/ PostAnalyzeToxicity
    \/ PostAnalyzeKeywords
    \/ SentimentCall
    \/ EmotionsCall
    \/ ToxicityCall
    \/ KeywordsCall
    \/ ComprehensiveCall
    \/ ComprehensiveAgain
    \/ Return

SpecService == Init /\ [][NextService]_vars

(***************************************************************************)
(* Properties                                                              *)
(***************************************************************************)
\* a blank comment: empty, or whitespace only
IsBlank(comment) == \A k \in DOMAIN comment : comment[k] \in Whitespace

ReturnedFrom(op) == pc = "done" /\ call.op = op

\* C1: get_comprehensive_analysis, called with the empty list or with a list of
\* blank comments only, returns the record whose single key is "error" ("No
\* comments provided" for the empty list, "No valid comments after cleaning"
\* otherwise) and hands no list to any analysis pass.
C1_BlankInputIsAnError ==
    (/\ ReturnedFrom("get_comprehensive_analysis")
     /\ \A i \in DOMAIN call.comments : IsBlank(call.comments[i]))
    => /\ result = [error |-> IF call.comments = <<>>
                              THEN "No comments provided"
                              ELSE "No valid comments after cleaning"]
       /\ DOMAIN locals.passes = {}

\* a list of two blank comments, one of them whitespace, was answered
C1_Witness ==
    /\ ReturnedFrom("get_comprehensive_analysis")
    /\ call.comments = <<c_blank, c_empty>>
    /\ result = [error |-> "No valid comments after cleaning"]

\* the indices of the comments analyze_sentiment and analyze_emotions tally:
\* those of at least 3 characters after trimming
Eligible(comments) ==
    LET Long(i) == Len(strip(comments[i])) >= MIN_COMMENT_LENGTH
    IN  SelectSeq([i \in 1..Len(comments) |-> i], Long)

Strategies == <<"transformers", "textblob", "rules">>

\* the strategy is there at all
Available(s) ==
    CASE s = "transformers" -> sentiment_analyzer # "None"
      [] s = "textblob" -> HAS_TEXTBLOB
      [] s = "rules" -> TRUE

\* the strategy is there and does not fail on comment i of the call
Succeeds(s, i) ==
    CASE s = "transformers" -> Available(s) /\ backend.sentiment[i] # Raises
      [] s = "textblob" -> Available(s) /\ backend.textblob[i] # Raises
      [] s = "rules" -> TRUE

\* the position in Strategies of the first strategy that succeeds on comment i
FirstSucceeding(i) ==
    CHOOSE k \in 1..3 : Succeeds(Strategies[k], i)
                        /\ \A j \in 1..(k - 1) : ~Succeeds(Strategies[j], i)

\* what strategy number k answers for comment i
Answer(k, i) ==
    CASE k = 1 -> backend.sentiment[i]
      [] k = 2 -> textblob_sentiment(backend.textblob[i].polarity)
      [] k = 3 -> rule_based_sentiment(call.comments[i])

\* C2: analyze_sentiment appends exactly one label and one score for every
\* comment of trimmed length at least 3, and none for the others; the pair is
\* the answer of the first of transformers, TextBlob and the rules that is
\* available and does not fail, and the strategies attempted for the comment
\* are the available ones up to that one, in that order.  The returned record
\* is an error exactly when no comment is eligible, and otherwise counts the
\* eligible comments: no failure of a backend shows in it.
C2_FirstAvailableStrategy ==
    ReturnedFrom("analyze_sentiment")
    => LET eligible == Eligible(call.comments)
       IN  /\ Len(locals.sentiments) = Len(eligible)
           /\ Len(locals.sentiment_scores) = Len(eligible)
           /\ \A k \in DOMAIN eligible :
                 LET i == eligible[k]
                     first == FirstSucceeding(i)
                 IN  /\ locals.sentiments[k] = Answer(first, i).label
                     /\ locals.sentiment_scores[k] = Answer(first, i).score
                     /\ locals.tried[k] = SelectSeq(SubSeq(Strategies, 1, first), Available)
           /\ IF eligible = <<>>
              THEN DOMAIN result = {"error"}
              ELSE /\ DOMAIN result = {"total_comments", "sentiment_distribution",
                                       "sentiment_percentages", "average_sentiment_score",
                                       "overall_sentiment"}
                   /\ result.total_comments = Len(eligible)

\* one call in which the transformers pipeline answered for the first comment,
\* and raised for the second, for which TextBlob raised too
C2_Witness ==
    /\ ReturnedFrom("analyze_sentiment")
    /\ Len(locals.tried) = 2
    /\ locals.tried[1] = <<"transformers">>
    /\ locals.tried[2] = <<"transformers", "textblob", "rules">>

RECURSIVE SumValues(_)
SumValues(f) ==
    IF DOMAIN f = {} THEN 0
    ELSE LET x == CHOOSE x \in DOMAIN f : TRUE
         IN  f[x] + SumValues([y \in DOMAIN f \ {x} |-> f[y]])

Distance(a, b) == IF a < b THEN b - a ELSE a - b

\* a distribution's percentages sum to 100 within 0.005 per label, and its
\* counts sum to the number of tallied comments
SumsUp(distribution, percentages, tallied) ==
    /\ DOMAIN percentages = DOMAIN distribution
    /\ 2 * Distance(SumValues(percentages), 10000) <= Cardinality(DOMAIN percentages)
    /\ SumValues(distribution) = tallied

\* C3: when analyze_sentiment (analyze_emotions) returns a distribution, its
\* percentages sum to 100 within 0.005 per distinct label, and its counts sum to
\* the number of comments tallied.
C3_PercentagesSumTo100 ==
    /\ (ReturnedFrom("analyze_sentiment") /\ "error" \notin DOMAIN result)
       => SumsUp(result.sentiment_distribution, result.sentiment_percentages,
                 Len(locals.sentiments))
    /\ (ReturnedFrom("analyze_emotions") /\ "error" \notin DOMAIN result)
       => SumsUp(result.emotion_distribution, result.emotion_percentages,
                 Len(locals.emotions))

\* an emotion distribution of three labels, a third each: the rounded
\* percentages sum to 99.99
C3_Witness ==
    /\ ReturnedFrom("analyze_emotions")
    /\ "error" \notin DOMAIN result
    /\ Cardinality(DOMAIN result.emotion_percentages) = 3
    /\ SumValues(result.emotion_percentages) = 9999

\* the report of get_comprehensive_analysis: a call that ran the passes
Reported == ReturnedFrom("get_comprehensive_analysis") /\ "error" \notin DOMAIN result

\* the least (greatest) of a non-empty sequence of numbers
Least(s) == CHOOSE x \in Range(s) : \A y \in Range(s) : x <= y

Greatest(s) == CHOOSE x \in Range(s) : \A y \in Range(s) : y <= x

\* m is the element at index Len(s) \div 2 (from 0) of s in ascending order
IsUpperMedian(m, s) ==
    /\ Cardinality({i \in DOMAIN s : s[i] < m}) <= Len(s) \div 2
    /\ Cardinality({i \in DOMAIN s : s[i] <= m}) > Len(s) \div 2

\* C4: in the report, the sentiment tally and the emotion tally count exactly
\* the cleaned comments of at least 3 characters after trimming (and are the
\* error record when there is none), while comment_patterns counts every
\* cleaned comment, the short ones too: total_comments is their number, and
\* average, median, shortest and longest length are taken over all of them.
C4_ShortCommentsCountInPatternsOnly ==
    Reported
    => LET cleaned == locals.passes["comment_patterns"]
           long == Cardinality({i \in DOMAIN cleaned : Len(strip(cleaned[i])) >= 3})
           lengths == [i \in DOMAIN cleaned |-> Len(cleaned[i])]
           patterns == result.comment_patterns
       IN  /\ IF long = 0
              THEN /\ DOMAIN result.sentiment_analysis = {"error"}
                   /\ DOMAIN result.emotion_analysis = {"error"}
              ELSE /\ result.sentiment_analysis.total_comments = long
                   /\ SumValues(result.sentiment_analysis.sentiment_distribution) = long
                   /\ SumValues(result.emotion_analysis.emotion_distribution) = long
           /\ patterns.total_comments = Len(cleaned)
           /\ patterns.shortest_comment = Least(lengths)
           /\ patterns.longest_comment = Greatest(lengths)
           /\ IsUpperMedian(patterns.median_length, lengths)
           /\ 2 * Distance(patterns.average_length * Len(cleaned), 100 * SumSeq(lengths))
                 <= Len(cleaned)

\* "ok" and "wow!" were analyzed: one comment tallied, two counted in the
\* patterns, the shortest of 2 characters
C4_Witness ==
    /\ Reported
    /\ call.comments = <<c_ok, c_wow>>
    /\ result.sentiment_analysis.total_comments = 1
    /\ SumValues(result.emotion_analysis.emotion_distribution) = 1
    /\ result.comment_patterns.total_comments = 2
    /\ result.comment_patterns.shortest_comment = 2
    /\ result.comment_patterns.average_length = 300

\* the spec's example was analyzed with the keyword heuristic only
ExampleReported ==
    /\ Reported
    /\ call.comments = ExampleComments
    /\ sentiment_analyzer = "None"
    /\ ~HAS_TEXTBLOB

\* C5, as claimed: for ["I love this!!", "I HATE THIS SO MUCH"] with only the
\* keyword heuristic active, the sentiment distribution is {POSITIVE: 1,
\* NEGATIVE: 1} and exclamation_percentage is 100.0.
C5_ExampleAsClaimed ==
    ExampleReported
    => /\ result.sentiment_analysis.sentiment_distribution = [POSITIVE |-> 1, NEGATIVE |-> 1]
       /\ result.comment_patterns.exclamation_percentage = 10000

\* C5, amended: for ["I love this!!", "I HATE THIS SO MUCH"] with only the
\* keyword heuristic active, the sentiment distribution is {POSITIVE: 1,
\* NEGATIVE: 1} and exclamation_percentage is 50.0: one of the two comments
\* has an exclamation mark.
C5_Example ==
    ExampleReported
    => /\ result.sentiment_analysis.sentiment_distribution = [POSITIVE |-> 1, NEGATIVE |-> 1]
       /\ result.comment_patterns.exclamation_percentage = 5000

C5_Witness == ExampleReported /\ result.comment_patterns.total_comments = 2

\* the input comments of the call that are not blank
NonBlank(comments) ==
    LET Kept(c) == ~IsBlank(c)
    IN  SelectSeq(comments, Kept)

\* the percentage, to two decimals, of the comments that contain c
PercentageWith(comments, c) ==
    Percentage(Cardinality({i \in DOMAIN comments : \E k \in DOMAIN comments[i] :
                                comments[i][k] = c}),
               Len(comments))

\* C6: in the report, exclamation_percentage, question_percentage and
\* mention_percentage are the percentages of the non-blank input comments that
\* contain '!', '?' and '@'.
C6_PatternsOfInputComments ==
    Reported
    => LET input == NonBlank(call.comments)
       IN  /\ result.comment_patterns.exclamation_percentage = PercentageWith(input, "!")
           /\ result.comment_patterns.question_percentage = PercentageWith(input, "?")
           /\ result.comment_patterns.mention_percentage = PercentageWith(input, "@")

\* C7: every string handed to an analysis pass is non-blank, and a call whose
\* comments are all blank after cleaning returns the error record and runs no
\* pass.
C7_BlanksDiscardedBeforePasses ==
    ReturnedFrom("get_comprehensive_analysis")
    => /\ \A p \in DOMAIN locals.passes :
             \A i \in DOMAIN locals.passes[p] : ~IsBlank(locals.passes[p][i])
       /\ (\A i \in DOMAIN call.comments : IsBlank(clean_text(call.comments[i])))
             => (DOMAIN result = {"error"} /\ DOMAIN locals.passes = {})

\* a request was answered
Answered ==
    /\ pc = "done"
    /\ call.op \in {"POST /analyze", "POST /analyze/sentiment",
                    "POST /analyze/toxicity", "POST /analyze/keywords"}

\* C8: every response is either success = false with a non-empty error and no
\* data, or success = true with data that has no top-level "error" key; and a
\* request whose comments are all blank is answered with success = false.
C8_ConsistentEnvelope ==
    Answered
    => /\ IF result.success
          THEN DOMAIN result = {"success", "data"} /\ "error" \notin DOMAIN result.data
          ELSE DOMAIN result = {"success", "error"} /\ result.error # ""
       /\ (\A i \in DOMAIN call.request.comments : IsBlank(call.request.comments[i]))
             => ~result.success

\* the spam rule of the spec
IsSpam(comment) ==
    \/ isupper(comment) /\ Len(comment) > 20
    \/ Cardinality(Range(comment)) < 5 /\ Len(comment) > 15

\* C9: the spam list of detect_toxicity has exactly one entry for each comment
\* that is fully upper-case and longer than 20 characters, or has fewer than 5
\* distinct characters and is longer than 15, in the order of the comments, and
\* none for any other; the reason is "All caps" in the first case and
\* "Repetitive characters" otherwise; spam_comments is the number of entries
\* and does not exceed total_comments.
C9_SpamRule ==
    ReturnedFrom("detect_toxicity")
    => LET comments == call.comments
           spam == SelectSeq([i \in 1..Len(comments) |-> i],
                             LAMBDA i : IsSpam(comments[i]))
       IN  /\ Len(locals.spam_comments) = Len(spam)
           /\ \A k \in DOMAIN spam :
                 /\ locals.spam_comments[k].index = spam[k] - 1
                 /\ locals.spam_comments[k].reason =
                       IF isupper(comments[spam[k]]) /\ Len(comments[spam[k]]) > 20
                       THEN "All caps" ELSE "Repetitive characters"
           /\ result.value.spam_comments = Len(spam)
           /\ result.value.spam_comments <= result.value.total_comments
           /\ result.value.total_comments = Len(comments)

\* 16 identical characters and "THIS IS DEFINITELY SPAM TEXT" were flagged
C9_Witness ==
    /\ ReturnedFrom("detect_toxicity")
    /\ call.comments = <<c_a16, c_spam_text>>
    /\ Len(locals.spam_comments) = 2
    /\ locals.spam_comments[1].reason = "Repetitive characters"
    /\ locals.spam_comments[2].reason = "All caps"

\* the number of occurrences of a token in the comments of the call
Occurrences(word, comments) ==
    Cardinality({<<i, j>> \in (DOMAIN comments) \X (1..20) :
                    j <= Len(Tokens(comments[i])) /\ Tokens(comments[i])[j] = word})

\* the tokens of the comments that are alphabetic, longer than 2 characters and
\* no stopword
KeywordTokens(comments) ==
    {w \in UNION {Range(Tokens(comments[i])) : i \in DOMAIN comments} :
        isalpha(w) /\ Len(w) > 2 /\ w \notin stop_words}

\* C10: extract_keywords(comments, top_n) returns at most top_n entries (20 by
\* default, 30 on /analyze/keywords), each an alphabetic token longer than 2
\* characters that is no stopword, with the number of its occurrences in all
\* the comments; the counts do not increase along the list, and no token left
\* out has a greater count than a returned one.  ["the cat sat", "the cat ran"]
\* yields cat (2), then sat (1) and ran (1).
C10_TopKeywords ==
    /\ DEFAULT_TOP_N = 20
    /\ KEYWORDS_ENDPOINT_TOP_N = 30
    /\ ReturnedFrom("extract_keywords")
       => LET keywords == result.value
              returned == {keywords[k].word : k \in DOMAIN keywords}
          IN  /\ Len(keywords) <= call.top_n
              /\ \A k \in DOMAIN keywords :
                    /\ keywords[k].word \in KeywordTokens(call.comments)
                    /\ keywords[k].count = Occurrences(keywords[k].word, call.comments)
              /\ \A k \in 1..(Len(keywords) - 1) : keywords[k].count >= keywords[k + 1].count
              /\ \A w \in KeywordTokens(call.comments) \ returned :
                    \A k \in DOMAIN keywords :
                       Occurrences(w, call.comments) <= keywords[k].count
              /\ (call.comments = <<c_cat_sat, c_cat_ran>> /\ call.top_n >= 3)
                    => keywords = <<[word |-> <<"c","a","t">>, count |-> 2],
                                    [word |-> <<"s","a","t">>, count |-> 1],
                                    [word |-> <<"r","a","n">>, count |-> 1]>>

\* the top 2 of three keywords were returned: a keyword was left out
C10_Witness ==
    /\ ReturnedFrom("extract_keywords")
    /\ call.comments = <<c_cat_sat, c_cat_ran>>
    /\ call.top_n = 2
    /\ Len(result.value) = 2
    /\ result.value[1] = [word |-> <<"c","a","t">>, count |-> 2]


\* the first comments of a list, up to a limit
FirstOf(comments, limit) ==
    SubSeq(comments, 1, IF Len(comments) < limit THEN Len(comments) ELSE limit)

\* the response without the metadata of the request
Analysis(data) == [k \in DOMAIN data \ {"metadata"} |-> data[k]]

\* C11: a request of n > 0 comments to /analyze is answered with the analysis of
\* its first min(n, 1000) comments, in their order, and one to /analyze/sentiment
\* with that of its first min(n, 500): the passes are handed these comments and
\* no other, the answer is the answer to the request without the comments
\* beyond the limit, a request longer than the limit is answered with
\* success = true when one of the comments up to the limit is not blank, and
\* the metadata of /analyze has comments_analyzed = min(n, 1000) and
\* total_comments_received = n.
C11_SilentTruncation ==
    /\ (pc = "done" /\ call.op = "POST /analyze" /\ call.request.comments # <<>>)
       => LET comments == call.request.comments
              first == FirstOf(comments, 1000)
              kept == NonBlank(first)
          IN  /\ result.success
              /\ Analysis(result.data) = get_comprehensive_analysis(first, backend)
              /\ \A p \in DOMAIN locals.passes :
                    locals.passes[p] = [i \in DOMAIN kept |-> clean_text(kept[i])]
              /\ "comment_patterns" \in DOMAIN result.data
                    => result.data.comment_patterns.total_comments = Len(kept)
              /\ result.data.metadata.comments_analyzed = Len(first)
              /\ result.data.metadata.total_comments_received = Len(comments)
    /\ (pc = "done" /\ call.op = "POST /analyze/sentiment" /\ call.request.comments # <<>>)
       => LET comments == call.request.comments
              first == FirstOf(comments, 500)
              kept == NonBlank(first)
              long == Cardinality({i \in DOMAIN kept :
                                      Len(strip(clean_text(kept[i]))) >= 3})
          IN  /\ result = analyze_sentiment_only(Request(first), backend)
              /\ result.success = (kept # <<>>)
              /\ (result.success /\ "total_comments" \in DOMAIN result.data)
                    => result.data.total_comments = long

\* /analyze was sent 999 times "meh", then "wow!", then "hate": "wow!" is the
\* one comment in 1000 with an exclamation mark, "hate" is not analyzed
C11_Witness ==
    /\ pc = "done" /\ call.op = "POST /analyze"
    /\ Len(call.request.comments) = 1001
    /\ call.request.comments[1000] = c_wow
    /\ call.request.comments[1001] = c_hate
    /\ result.success
    /\ result.data.metadata.comments_analyzed = 1000
    /\ result.data.metadata.total_comments_received = 1001
    /\ result.data.comment_patterns.total_comments = 1000
    /\ result.data.comment_patterns.exclamation_percentage = 10
    /\ result.data.toxicity_analysis.toxic_comments = 0

====
